---------------------------- MODULE Spec2Model ----------------------------
(***************************************************************************)
(* DaddyBank (src/db/script.js): the per-user rate resolver, the monthly   *)
(* compounding accrual engine, the projection and the page's handlers.     *)
(*                                                                         *)
(* Numbers.  JavaScript numbers are modelled as exact rationals <<n, d>>   *)
(* in lowest terms (d > 0).  Annual rates are drawn from values whose      *)
(* twelfth root is rational, so that monthlyRateFromAPY is computed        *)
(* exactly.                                                                *)
(*                                                                         *)
(* Dates.  A Date object is an integer instant counted in ticks of local   *)
(* wall-clock time since 2024-01-01T00:00; a date-only string         *)
(* "YYYY-MM-DD" is the triple <<y, m, d>>.  The session's timezone is the  *)
(* offset tz (in ticks) of local time from UTC.                            *)
(***************************************************************************)
EXTENDS Integers, Sequences, FiniteSets, TLC

VARIABLES
    doc,            \* the XML document behind xmlFileURL: a sequence of <user> nodes
    tz,             \* local time minus UTC, in ticks
    now,            \* the wall clock: what new Date() returns
    elapsed,        \* ticks the clock has advanced since the page was opened
    monthsField,    \* the text in #projection-months
    fetchState,     \* the fetch promise: "pending", "loaded" or "failed"
    usersData,      \* global usersData
    currentUser,    \* global currentUser: a position in usersData, 0 for none
    userSelect,     \* #user-select: the values of its options, in order
    section,        \* display of #login-section and #main-menu
    balanceView,    \* #balance-section as displayed, NoView while hidden
    historyView,    \* #history-section as displayed, NoView while hidden
    projectionView, \* #projection-section as displayed, NoView while hidden
    lastAlert,      \* the text of the last alert() box, "" when none was shown
    calls,          \* the calls the last handler made: [fn, user, at, result]
    firstCall       \* the first call of the engine in the session

vars == <<doc, tz, now, elapsed, monthsField, fetchState, usersData, currentUser,
          userSelect, section, balanceView, historyView, projectionView,
          lastAlert, calls, firstCall>>

-----------------------------------------------------------------------------
(* Rational arithmetic: the model of JavaScript's number operations.       *)

RECURSIVE GCD(_, _)
GCD(a, b) ==
    IF b = 0 THEN a ELSE GCD(b, a % b)

Abs(n) ==
    IF n < 0 THEN -n ELSE n

Rat(n, d) ==
    LET g == GCD(Abs(n), Abs(d))
        s == IF d < 0 THEN -1 ELSE 1
    IN  <<(s * n) \div g, (s * d) \div g>>

Zero ==
    <<0, 1>>

One ==
    <<1, 1>>

RAdd(a, b) ==
    LET g == GCD(a[2], b[2])
    IN  Rat(a[1] * (b[2] \div g) + b[1] * (a[2] \div g), (a[2] \div g) * b[2])

RNeg(a) ==
    <<-a[1], a[2]>>

RMul(a, b) ==
    LET g1 == GCD(Abs(a[1]), b[2])
        g2 == GCD(Abs(b[1]), a[2])
        h1 == IF g1 = 0 THEN 1 ELSE g1
        h2 == IF g2 = 0 THEN 1 ELSE g2
    IN  Rat((a[1] \div h1) * (b[1] \div h2), (a[2] \div h2) * (b[2] \div h1))

RLt(a, b) ==
    a[1] * b[2] < b[1] * a[2]

RLe(a, b) ==
    a[1] * b[2] <= b[1] * a[2]

-----------------------------------------------------------------------------
(* The Date object.                                                        *)

\* The calendar starts with January of this year (as an absolute month).
Epoch ==
    2024 * 12

HorizonMonths ==
    30

TicksPerDay ==
    2

IsLeap(y) ==
    (y % 4 = 0 /\ y % 100 # 0) \/ y % 400 = 0

\* Length of month m0 (0-based, as Date numbers months) of year y.
MonthLen(y, m0) ==
    IF m0 = 1 THEN (IF IsLeap(y) THEN 29 ELSE 28)
    ELSE IF m0 \in {3, 5, 8, 10} THEN 30 ELSE 31

\* Absolute months are y * 12 + m0; the calendar covers HorizonMonths of them.
MonthWindow ==
    Epoch .. (Epoch + HorizonMonths)

\* Days from the epoch to the first day of each of the first k + 1 months.
RECURSIVE MonthStartsUpTo(_)
MonthStartsUpTo(k) ==
    IF k = 0 THEN <<0>>
    ELSE LET before == MonthStartsUpTo(k - 1)
             mi == Epoch + k - 1
         IN  Append(before, before[k] + MonthLen(mi \div 12, mi % 12))

MonthStarts ==
    MonthStartsUpTo(HorizonMonths)

\* Days from the epoch to the first day of an absolute month.
MonthSerial(mi) ==
    MonthStarts[mi - Epoch + 1]

\* new Date(y, m0, d): local midnight; a month outside 0..11 carries into the
\* year and a day outside the month carries into the neighbouring month.
NewDate(y, m0, d) ==
    (MonthSerial(y * 12 + m0) + d - 1) * TicksPerDay

SerialOf(t) ==
    t \div TicksPerDay

\* The first month from mi on that the day numbered serial falls in.
RECURSIVE MonthFrom(_, _)
MonthFrom(mi, serial) ==
    IF MonthSerial(mi + 1) <= serial THEN MonthFrom(mi + 1, serial) ELSE mi

\* The absolute month an instant falls in (no month has more than 31 days).
MonthOf(t) ==
    MonthFrom(Epoch + (SerialOf(t) \div 31), SerialOf(t))

getFullYear(t) ==
    MonthOf(t) \div 12

getMonth(t) ==
    MonthOf(t) % 12

getDate(t) ==
    SerialOf(t) - MonthSerial(MonthOf(t)) + 1

\* new Date("YYYY-MM-DD"): a date-only string is read as UTC midnight, which
\* is tz ticks away from midnight on the local clock.
ParseDate(s) ==
    NewDate(s[1], s[2] - 1, s[3]) + tz

-----------------------------------------------------------------------------
(* 3) Date/math helpers                                                    *)

\* k such that k^12 = n: Math.pow(n, 1/12) on the twelfth powers.
Root12(n) ==
    CHOOSE k \in 0..5 : k ^ 12 = n

\* The annual rate whose monthly equivalent is (p - q) / q.
APY(p, q) ==
    Rat(p ^ 12 - q ^ 12, q ^ 12)

monthlyRateFromAPY(apy) ==
    LET g == RAdd(One, apy)
    IN  RAdd(Rat(Root12(g[1]), Root12(g[2])), RNeg(One))

iso(d) ==
    <<getFullYear(d), getMonth(d) + 1, getDate(d)>>

startOfMonth(d) ==
    NewDate(getFullYear(d), getMonth(d), 1)

endOfMonth(d) ==
    NewDate(getFullYear(d), getMonth(d) + 1, 0)

firstDayNextMonth(d) ==
    NewDate(getFullYear(d), getMonth(d) + 1, 1)

\* The length of the month after d's.
daysInFollowingMonth(d) ==
    getDate(endOfMonth(firstDayNextMonth(d)))

daysInMonth(d) ==
    getDate(endOfMonth(d))

localDate(isoStr) ==
    NewDate(isoStr[1], isoStr[2] - 1, isoStr[3])

\* Array.prototype.sort with a comparator key(a) - key(b): stable, ascending.
\* The argument is a sequence of <<key, element>> pairs.
RECURSIVE InsertByKey(_, _)
InsertByKey(sorted, p) ==
    IF sorted = <<>> THEN <<p>>
    ELSE IF sorted[Len(sorted)][1] <= p[1] THEN Append(sorted, p)
    ELSE Append(InsertByKey(SubSeq(sorted, 1, Len(sorted) - 1), p),
                sorted[Len(sorted)])

RECURSIVE SortPairs(_)
SortPairs(ps) ==
    IF ps = <<>> THEN <<>>
    ELSE InsertByKey(SortPairs(SubSeq(ps, 1, Len(ps) - 1)), ps[Len(ps)])

Unkey(ps) ==
    [i \in 1..Len(ps) |-> ps[i][2]]

-----------------------------------------------------------------------------
(* 4) APY lookup -- per user                                               *)

\* null / undefined
NoUser ==
    [none |-> TRUE]

\* Does the interval br match the instant d (line 167)?
\* A resolver that would take an interval as open-ended: the start date is
\* compared and the end date is not.
MatchesFromStart(br, d) ==
    localDate(br.startDate) <= d

Matches(br, d) ==
    localDate(br.startDate) <= d /\ d <= localDate(br.endDate)

RECURSIVE FirstMatch(_, _, _)
FirstMatch(rates, i, d) ==
    IF i > Len(rates) THEN Zero
    ELSE IF Matches(rates[i], d) THEN rates[i].rate
    ELSE FirstMatch(rates, i + 1, d)

apyForDateUser(user, d) ==
    IF user = NoUser \/ Len(user.interestRates) = 0 THEN Zero
    ELSE FirstMatch(user.interestRates, 1, d)

-----------------------------------------------------------------------------
(* 5) Core engine: compute balances & interest schedule for a user         *)

\* String.prototype.toLowerCase on the type strings of the documents.
toLowerCase(str) ==
    CASE str = "Deposit" -> "deposit"
      [] str = "Withdrawal" -> "withdrawal"
      [] str = "Interest" -> "interest"
      [] str = "Credit" -> "credit"
      [] str = "Debit" -> "debit"
      [] OTHER -> str

\* The signed amount of a transaction (lines 191-194).
SignedAmount(t) ==
    LET ttype == toLowerCase(t.type)
    IN  IF ttype = "deposit" \/ ttype = "credit" THEN t.amount
        ELSE IF ttype = "withdrawal" \/ ttype = "debit" THEN RNeg(t.amount)
        ELSE Zero

\* The normalized copy of the transactions (lines 190-196).
NormalizeTx(transactions) ==
    [i \in 1..Len(transactions) |->
        [date |-> transactions[i].date,
         type |-> transactions[i].type,
         amount |-> SignedAmount(transactions[i])]]

\* txSorted (lines 189-197).
TxSorted(transactions) ==
    LET norm == NormalizeTx(transactions)
    IN  Unkey(SortPairs([i \in 1..Len(norm) |-> <<ParseDate(norm[i].date), norm[i]>>]))

RECURSIVE SumAmounts(_, _)
SumAmounts(txs, i) ==
    IF i > Len(txs) THEN Zero
    ELSE RAdd(txs[i].amount, SumAmounts(txs, i + 1))

\* A firstDeposit search that would accept any non-zero amount.
IsMovement(t) ==
    t.amount # Zero

\* Is the transaction a candidate for firstDeposit (line 213)?
IsFunding(t) ==
    RLt(Zero, t.amount)

\* Index of the first funding transaction of txSorted, 0 when there is none.
FirstDepositIndex(txSorted) ==
    IF \E i \in 1..Len(txSorted) : IsFunding(txSorted[i])
    THEN CHOOSE i \in 1..Len(txSorted) :
            /\ IsFunding(txSorted[i])
            /\ \A j \in 1..(i - 1) : ~IsFunding(txSorted[j])
    ELSE 0

RECURSIVE SumWhere(_, _, _, _)
\* Sum of the amounts of txs[i..] dated (local) in [a, b].
SumWhere(txs, i, a, b) ==
    IF i > Len(txs) THEN Zero
    ELSE LET td == localDate(txs[i].date)
             rest == SumWhere(txs, i + 1, a, b)
         IN  IF a <= td /\ td <= b THEN RAdd(txs[i].amount, rest) ELSE rest

\* A sum over [d1, d2) that would leave out the transactions dated d2.
sumTxInside(txSorted, d1, d2) ==
    SumWhere(txSorted, 1, d1, d2 - 1)

sumTxBetween(txSorted, d1, d2) ==
    SumWhere(txSorted, 1, d1, d2)

RECURSIVE SumBeforeFrom(_, _, _)
SumBeforeFrom(txs, i, b) ==
    IF i > Len(txs) THEN Zero
    ELSE LET td == localDate(txs[i].date)
             rest == SumBeforeFrom(txs, i + 1, b)
         IN  IF td < b THEN RAdd(txs[i].amount, rest) ELSE rest

\* A sum that would include the transactions dated on d itself.
sumTxThrough(txSorted, d) ==
    SumBeforeFrom(txSorted, 1, d + 1)

sumTxBefore(txSorted, d) ==
    SumBeforeFrom(txSorted, 1, d)

\* A month's interest at the rate of the first day of the following month.
MonthInterestAtNext(user, runningStartBal, mStart) ==
    RMul(runningStartBal,
         monthlyRateFromAPY(apyForDateUser(user, firstDayNextMonth(mStart))))

\* The interest of one month on the balance carried into it (lines 256-258).
MonthInterest(user, runningStartBal, mStart) ==
    RMul(runningStartBal, monthlyRateFromAPY(apyForDateUser(user, mStart)))

\* The completed-months loop (lines 254-274), from the state
\* loop = [runningStartBal, totalInterestCredited, interestTx].
RECURSIVE CompletedMonths(_, _, _, _, _)
CompletedMonths(user, txSorted, lastFullMonthEnd, mStart, loop) ==
    IF mStart <= lastFullMonthEnd
    THEN LET interest == MonthInterest(user, loop.runningStartBal, mStart)
             mEnd == endOfMonth(mStart)
             monthTx == sumTxBetween(txSorted, mStart, mEnd)
         IN  CompletedMonths(user, txSorted, lastFullMonthEnd,
                 firstDayNextMonth(mStart),
                 [runningStartBal |->
                      RAdd(RAdd(loop.runningStartBal, interest), monthTx),
                  totalInterestCredited |->
                      RAdd(loop.totalInterestCredited, interest),
                  interestTx |->
                      IF interest # Zero
                      THEN Append(loop.interestTx,
                               [date |-> iso(mEnd), type |-> "Interest",
                                amount |-> interest])
                      ELSE loop.interestTx])
    ELSE loop

\* The result for a missing user or an empty history (lines 176-186, 199-209).
EmptySchedule ==
    [baseBalance |-> Zero, totalInterestCredited |-> Zero,
     accruedCurrentMonth |-> Zero, currentBalanceWithInterest |-> Zero,
     interestTx |-> <<>>, startBalThisMonth |-> Zero,
     nextMonthEstInterest |-> Zero]

\* The month the interest clock starts in (line 226).
ClockStart(firstDeposit) ==
    startOfMonth(ParseDate(firstDeposit.date))

computeInterestSchedule(user, today) ==
    IF user = NoUser THEN EmptySchedule
    ELSE
    LET txSorted == TxSorted(user.transactions)
        baseBalance == SumAmounts(txSorted, 1)
        fd == FirstDepositIndex(txSorted)
    IN  IF Len(txSorted) = 0 THEN EmptySchedule
        ELSE IF fd = 0
        THEN [baseBalance |-> baseBalance, totalInterestCredited |-> Zero,
              accruedCurrentMonth |-> Zero,
              currentBalanceWithInterest |-> baseBalance,
              interestTx |-> <<>>, startBalThisMonth |-> Zero,
              nextMonthEstInterest |-> Zero]
        ELSE
        LET clockStart == ClockStart(txSorted[fd])
            currentMonthStart == startOfMonth(today)
            lastFullMonthEnd ==
                endOfMonth(NewDate(getFullYear(today), getMonth(today) - 1, 1))
            loop == CompletedMonths(user, txSorted, lastFullMonthEnd, clockStart,
                        [runningStartBal |-> sumTxBefore(txSorted, clockStart),
                         totalInterestCredited |-> Zero,
                         interestTx |-> <<>>])
            startBalThisMonth == loop.runningStartBal
            fullMonthInterestCurrent ==
                MonthInterest(user, startBalThisMonth, currentMonthStart)
            dim == daysInMonth(currentMonthStart)
            elapsedDays == IF dim < getDate(today) THEN dim ELSE getDate(today)
            accruedCurrentMonth ==
                RMul(fullMonthInterestCurrent, Rat(elapsedDays, dim))
            monthTxToDate == sumTxBetween(txSorted, currentMonthStart, today)
            predictedStartNextMonth ==
                RAdd(RAdd(startBalThisMonth, fullMonthInterestCurrent),
                     monthTxToDate)
            nextMonthStart == firstDayNextMonth(currentMonthStart)
        IN  [baseBalance |-> baseBalance,
             totalInterestCredited |-> loop.totalInterestCredited,
             accruedCurrentMonth |-> accruedCurrentMonth,
             currentBalanceWithInterest |->
                 RAdd(RAdd(startBalThisMonth, monthTxToDate), accruedCurrentMonth),
             interestTx |-> loop.interestTx,
             startBalThisMonth |-> startBalThisMonth,
             nextMonthEstInterest |->
                 MonthInterest(user, predictedStartNextMonth, nextMonthStart)]

-----------------------------------------------------------------------------
(* 1) Parse XML (users, transactions, and per-user interestRates)          *)

\* Lines 84-86: a rate above 1 is a percentage.
NormalizeRate(rate) ==
    IF RLt(One, rate) THEN RMul(rate, Rat(1, 100)) ELSE rate

\* Lines 75-90: the <interestRate> nodes of one user, normalized and sorted.
ParseRates(rateNodes) ==
    LET parsed == [r \in 1..Len(rateNodes) |->
                      [startDate |-> rateNodes[r].startDate,
                       endDate |-> rateNodes[r].endDate,
                       rate |-> NormalizeRate(rateNodes[r].rate)]]
    IN  Unkey(SortPairs([r \in 1..Len(parsed) |->
                            <<ParseDate(parsed[r].startDate), parsed[r]>>]))

\* usersData after parseBankXML(xmlDoc) has pushed the document's users.
parseBankXML(xmlDoc) ==
    usersData \o [i \in 1..Len(xmlDoc) |->
                     [name |-> xmlDoc[i].name,
                      transactions |-> xmlDoc[i].transactions,
                      interestRates |-> ParseRates(xmlDoc[i].interestRates)]]

-----------------------------------------------------------------------------
(* 2) UI: user select & login                                              *)

\* The value "" of an option, and of a select without options.
EmptyValue ==
    -1

\* The option values populateUserSelect leaves in #user-select.
populateUserSelect(users) ==
    IF Len(users) = 0 THEN <<EmptyValue>>
    ELSE [idx \in 1..Len(users) |-> idx - 1]

\* The values the select can hold when the login button is clicked.
SelectValues ==
    IF Len(userSelect) = 0 THEN {EmptyValue}
    ELSE {userSelect[i] : i \in 1..Len(userSelect)}

\* usersData[idx] as a reference: the position in usersData, 0 for undefined.
UserAt(idx) ==
    IF idx >= 0 /\ idx < Len(usersData) THEN idx + 1 ELSE 0

\* The object a reference stands for.
Deref(ref) ==
    IF ref = 0 THEN NoUser ELSE usersData[ref]

-----------------------------------------------------------------------------------------------------------------------------------------------------
(* 6-7) Balance and history views                                          *)

NoView ==
    [shown |-> FALSE]

\* The record of one call of the engine, made by the function by.
EngineCall(by, ref, today, sched) ==
    [fn |-> "computeInterestSchedule", by |-> by, user |-> ref, at |-> today,
     result |-> sched]

\* What showBalance renders (lines 319-332), before toFixed.
BalanceOf(ref, today, sched) ==
    [shown |-> TRUE, user |-> ref, asOf |-> today,
     currentBalance |-> sched.currentBalanceWithInterest,
     todayAPY |-> apyForDateUser(Deref(ref), today),
     totalInterest |->
         RAdd(sched.totalInterestCredited, sched.accruedCurrentMonth),
     nextMonthInterest |-> sched.nextMonthEstInterest]

\* Lines 346-367, given the interestTx the engine returned.
buildAugmentedTransactions(ref, today, interestTx, includeFuture) ==
    IF ref = 0 THEN <<>>
    ELSE
    LET userTx == NormalizeTx(Deref(ref).transactions)
        finalizedInterest ==
            SelectSeq(interestTx,
                LAMBDA it : includeFuture \/ localDate(it.date) <= today)
        all == userTx \o finalizedInterest
    IN  Unkey(SortPairs([i \in 1..Len(all) |-> <<localDate(all[i].date), all[i]>>]))

\* What showHistory renders (lines 369-392): the rows of the table.
HistoryOf(ref, today, sched) ==
    [shown |-> TRUE, user |-> ref, asOf |-> today,
     rows |-> buildAugmentedTransactions(ref, today, sched.interestTx, FALSE)]

-----
(* 8) Projection                                                           *)

\* The text of an input field is a sequence of characters.
Digits ==
    <<"0", "1", "2", "3", "4", "5", "6", "7", "8", "9">>

IsDigit(c) ==
    \E k \in 1..10 : Digits[k] = c

DigitValue(c) ==
    (CHOOSE k \in 1..10 : Digits[k] = c) - 1

\* The value of the digits of str from position i to the first non-digit.
RECURSIVE DigitRun(_, _, _)
DigitRun(str, i, acc) ==
    IF i > Len(str) \/ ~IsDigit(str[i]) THEN acc
    ELSE DigitRun(str, i + 1, acc * 10 + DigitValue(str[i]))

RECURSIVE SkipSpace(_, _)
SkipSpace(str, i) ==
    IF i <= Len(str) /\ str[i] = " " THEN SkipSpace(str, i + 1) ELSE i

\* parseInt(str): leading blanks, an optional sign, then decimal digits up to
\* the first other character; NaN when no digit is there.
parseInt(str) ==
    LET i == SkipSpace(str, 1)
        signed == i <= Len(str) /\ str[i] \in {"-", "+"}
        j == IF signed THEN i + 1 ELSE i
    IN  IF j > Len(str) \/ ~IsDigit(str[j]) THEN [nan |-> TRUE, value |-> 0]
        ELSE [nan |-> FALSE,
              value |-> (IF signed /\ str[i] = "-" THEN -1 ELSE 1)
                            * DigitRun(str, j, 0)]

DefaultMonths ==
    12

\* Line 464: parseInt(value) || 12.
\* A reading of the months field without the fallback on 0.
MonthsAsParsed(value) ==
    LET n == parseInt(value)
    IN  IF n.nan THEN DefaultMonths ELSE n.value

MonthsOf(value) ==
    LET n == parseInt(value)
    IN  IF n.nan \/ n.value = 0 THEN DefaultMonths ELSE n.value

\* A loop that would stop one month early (m < months).
RECURSIVE DataPointsBelow(_, _, _, _)
DataPointsBelow(m, months, runningBalance, mRate) ==
    IF m < months
    THEN <<[month |-> m, balance |-> runningBalance]>>
         \o DataPointsBelow(m + 1, months,
                RAdd(runningBalance, RMul(runningBalance, mRate)), mRate)
    ELSE <<>>

\* The loop of lines 475-479 from month m on.
RECURSIVE DataPoints(_, _, _, _)
DataPoints(m, months, runningBalance, mRate) ==
    IF m <= months
    THEN <<[month |-> m, balance |-> runningBalance]>>
         \o DataPoints(m + 1, months,
                RAdd(runningBalance, RMul(runningBalance, mRate)), mRate)
    ELSE <<>>

\* What updateProjection draws for a logged-in user (lines 464-480).
ProjectionOf(ref, today, value, sched) ==
    LET months == MonthsOf(value)
        todayAPY == apyForDateUser(Deref(ref), today)
    IN  [shown |-> TRUE, user |-> ref, asOf |-> today, input |-> value,
         currentBalance |-> sched.currentBalanceWithInterest,
         todayAPY |-> todayAPY,
         dataPoints |-> DataPoints(0, months, sched.currentBalanceWithInterest,
                            monthlyRateFromAPY(todayAPY))]

-----------------------------------------------------------------------------------------------------------------------------------------------------
(* The handlers.                                                           *)

\* Lines 27-32: the fetch succeeds; the document is parsed and the select filled.
LoadSuccess ==
    /\ fetchState = "pending"
    /\ fetchState' = "loaded"
    /\ usersData' = parseBankXML(doc)
    /\ userSelect' = populateUserSelect(usersData')
    /\ calls' = {}
    /\ UNCHANGED <<doc, tz, now, elapsed, monthsField, currentUser, section,
                   balanceView, historyView, projectionView, lastAlert, firstCall>>

\* Lines 33-36: the fetch (or the parse) fails.
LoadFail ==
    /\ fetchState = "pending"
    /\ fetchState' = "failed"
    /\ lastAlert' = "Could not load user data from the XML file."
    /\ calls' = {}
    /\ UNCHANGED <<doc, tz, now, elapsed, monthsField, usersData, currentUser,
                   userSelect, section, balanceView, historyView, projectionView,
                   firstCall>>

\* An engine that would normalize the transactions of the account in place
\* instead of on a copy.
NormalizedInPlace(user) ==
    [user EXCEPT !.transactions = NormalizeTx(@)]

\* The account as computeInterestSchedule leaves it: it works on a copy of
\* the transactions (line 189) and assigns to no field of user.
AccountAfterEngine(user) ==
    user

\* usersData after the engine has run on the user at ref.
AfterEngine(ref) ==
    IF ref = 0 THEN usersData
    ELSE [usersData EXCEPT ![ref] = AccountAfterEngine(@)]

\* The function by ran computeInterestSchedule(ref) and got sched.
Ran(by, ref, sched) ==
    /\ calls' = {EngineCall(by, ref, now, sched)}
    /\ firstCall' = IF firstCall = {} THEN calls' ELSE firstCall
    /\ usersData' = AfterEngine(ref)

\* showBalance (lines 315-333): the other sections are hidden.
showBalance(ref) ==
    LET sched == computeInterestSchedule(Deref(ref), now)
    IN  /\ balanceView' = BalanceOf(ref, now, sched)
        /\ historyView' = NoView
        /\ projectionView' = NoView
        /\ Ran("showBalance", ref, sched)

\* Lines 119-129: a click on #login-button with some option selected.
handleLogin ==
    \E idx \in SelectValues :
        /\ currentUser' = UserAt(idx)
        /\ IF UserAt(idx) = 0
           THEN /\ lastAlert' = "User not found. Please select a valid account."
                /\ calls' = {}
                /\ UNCHANGED <<section, balanceView, historyView, projectionView,
                               firstCall, usersData>>
           ELSE /\ section' = [login |-> FALSE, menu |-> TRUE]
                /\ showBalance(UserAt(idx))
                /\ UNCHANGED lastAlert
        /\ UNCHANGED <<doc, tz, now, elapsed, monthsField, fetchState, userSelect>>

\* A click on #balance-btn.
ClickBalance ==
    /\ showBalance(currentUser)
    /\ UNCHANGED <<doc, tz, now, elapsed, monthsField, fetchState, currentUser,
                   userSelect, section, lastAlert>>

\* A click on #history-btn (lines 338-344): both renderers return early
\* without a user, and otherwise each runs the engine.
ClickHistory ==
    LET sched == computeInterestSchedule(Deref(currentUser), now)
    IN  /\ historyView' = HistoryOf(currentUser, now, sched)
        /\ balanceView' = NoView
        /\ projectionView' = NoView
        /\ IF currentUser = 0
           THEN calls' = {} /\ UNCHANGED <<firstCall, usersData>>
           ELSE Ran("buildAugmentedTransactions", currentUser, sched)
        /\ UNCHANGED <<doc, tz, now, elapsed, monthsField, fetchState, currentUser,
                       userSelect, section, lastAlert>>

\* updateProjection (lines 461-519); displayed tells whether
\* #projection-section is on display once it has run.
updateProjection(displayed) ==
    IF currentUser = 0
    THEN /\ projectionView' =
                IF displayed THEN [shown |-> TRUE, user |-> 0] ELSE NoView
         /\ calls' = {}
         /\ UNCHANGED <<firstCall, usersData>>
    ELSE LET sched == computeInterestSchedule(Deref(currentUser), now)
         IN  /\ projectionView' =
                    IF displayed
                    THEN ProjectionOf(currentUser, now, monthsField, sched)
                    ELSE NoView
             /\ Ran("updateProjection", currentUser, sched)

\* A click on #projection-btn (lines 455-459).
ClickProjection ==
    /\ balanceView' = NoView
    /\ historyView' = NoView
    /\ updateProjection(TRUE)
    /\ UNCHANGED <<doc, tz, now, elapsed, monthsField, fetchState, currentUser,
                   userSelect, section, lastAlert>>

\* A click on #projection-update-btn.
ClickUpdate ==
    /\ updateProjection(projectionView # NoView)
    /\ UNCHANGED <<doc, tz, now, elapsed, monthsField, fetchState, currentUser,
                   userSelect, section, balanceView, historyView, lastAlert>>

MaxTicks ==
    1

\* Time passes.
Tick ==
    /\ elapsed < MaxTicks
    /\ elapsed' = elapsed + 1
    /\ now' = now + 1
    /\ UNCHANGED <<doc, tz, monthsField, fetchState, usersData, currentUser,
                   userSelect, section, balanceView, historyView, projectionView,
                   lastAlert, calls, firstCall>>

-----
(* The documents, clocks and timezones the model is run on.                *)

TimeZones ==
    {-1, 0, 1}

\* All sequences over S of length at most n.
SeqsUpTo(S, n) ==
    UNION {[1..k -> S] : k \in 0..n}

\* The annual rates of the documents as written there, in percent.
RawRates ==
    {Zero, RMul(Rat(100, 1), APY(3, 2)), RMul(Rat(100, 1), APY(2, 1))}

\* The instants of a calendar day.
InstantsOf(day) ==
    {localDate(day) + k : k \in 0..(TicksPerDay - 1)}

\* Midnight and the last tick of a calendar day.
EndsOf(day) ==
    {localDate(day), localDate(day) + TicksPerDay - 1}

\* The texts tried in #projection-months.
MonthInputs ==
    {<<>>, <<"x">>, <<"0">>, <<"-", "3">>, <<"1">>, <<"3">>, <<" ", "2", ".", "5">>}

\* The page once window.onload has run, on document d in timezone t at
\* instant n, with the text m in #projection-months.
Init0(d, t, n, m) ==
    /\ doc = d
    /\ tz = t
    /\ now = n
    /\ monthsField = m
    /\ firstCall = {}
    /\ fetchState = "pending"
    /\ usersData = <<>>
    /\ currentUser = 0
    /\ userSelect = <<>>
    /\ section = [login |-> TRUE, menu |-> FALSE]
    /\ balanceView = NoView
    /\ historyView = NoView
    /\ projectionView = NoView
    /\ lastAlert = ""
    /\ elapsed = 0
    /\ calls = {}

-----------------------------------------------------------------------------
(* The rate resolver on its own: documents with one user and every         *)
(* schedule of at most MaxIntervals intervals; once the document is loaded *)
(* the resolver is asked for one date.                                     *)

MaxIntervals ==
    2

StartDates ==
    {<<2025, 1, 1>>, <<2025, 1, 31>>, <<2025, 2, 1>>}

EndDates ==
    {<<2025, 1, 31>>, <<2025, 2, 28>>}

Intervals ==
    {iv \in [startDate : StartDates, endDate : EndDates, rate : RawRates] :
        localDate(iv.startDate) <= localDate(iv.endDate)}

\* A document without users, and the documents of one user.
ResolverDocs ==
    {<<>>} \cup
    {<<[name |-> "a", transactions |-> <<>>, interestRates |-> rs]>> :
        rs \in SeqsUpTo(Intervals, MaxIntervals)}

\* The dates the program asks the resolver about: the first days of months
\* at midnight (lines 256, 279, 297) and the current instant (lines 322, 472).
QueryDays ==
    {<<2024, 12, 31>>, <<2025, 1, 1>>, <<2025, 1, 31>>, <<2025, 2, 1>>,
     <<2025, 2, 28>>, <<2025, 3, 1>>}

QueryInstants ==
    UNION {InstantsOf(day) : day \in QueryDays}

Resolve ==
    /\ fetchState = "loaded"
    /\ \E ref \in {UserAt(idx) : idx \in SelectValues}, d \in QueryInstants :
           calls' = {[fn |-> "apyForDateUser", by |-> "", user |-> ref, at |-> d,
                      result |-> apyForDateUser(Deref(ref), d)]}
    /\ UNCHANGED <<doc, tz, now, elapsed, monthsField, fetchState, usersData,
                   currentUser, userSelect, section, balanceView, historyView,
                   projectionView, lastAlert, firstCall>>

InitResolver ==
    \E d \in ResolverDocs, t \in TimeZones :
        Init0(d, t, localDate(<<2025, 1, 1>>), <<>>)

NextResolver ==
    LoadSuccess \/ Resolve

SpecResolver ==
    InitResolver /\ [][NextResolver]_vars

\* The calendar day of the instant t lies in the interval iv, both ends included.
DayCovers(iv, t) ==
    /\ localDate(iv.startDate) <= localDate(iso(t))
    /\ localDate(iso(t)) <= localDate(iv.endDate)

\* The calls of the resolver made so far.
ResolverCalls ==
    {c \in calls : c.fn = "apyForDateUser"}

\* The intervals of the user's schedule whose days cover the instant t.
Covering(ref, t) ==
    IF ref = 0 THEN {}
    ELSE {i \in 1..Len(usersData[ref].interestRates) :
             DayCovers(usersData[ref].interestRates[i], t)}

\* C1: for every query the program makes, at midnight or during the day, the
\* resolver returns the rate of an interval whose days startDate..endDate
\* (both included) contain the query's calendar day, and rate 0 when the
\* day lies outside every interval, such as the day after an endDate.
C1_InclusiveEnds ==
    \A c \in ResolverCalls :
        IF Covering(c.user, c.at) = {} THEN c.result = Zero
        ELSE c.result \in {usersData[c.user].interestRates[i].rate :
                               i \in Covering(c.user, c.at)}

\* C2: the resolver returns rate 0 when the account is missing, when its
\* schedule is empty, and when no interval of the schedule covers the date.
C2_DefaultZero ==
    \A c \in ResolverCalls :
        Covering(c.user, c.at) = {} => c.result = Zero

\* C2's case: a schedule of positive rates is asked about a day after the
\* end of all its intervals, and the answer is 0.
C2_Witness ==
    \E c \in ResolverCalls :
        /\ c.user # 0
        /\ Len(usersData[c.user].interestRates) = MaxIntervals
        /\ \A i \in 1..Len(usersData[c.user].interestRates) :
               usersData[c.user].interestRates[i].rate # Zero
        /\ Covering(c.user, c.at) = {}
        /\ c.at = localDate(<<2025, 3, 1>>)
        /\ c.result = Zero

\* The interval of the document that should win for the instant t: among
\* those covering t's day, the earliest startDate, then the earliest position.
Winner(rateNodes, t) ==
    CHOOSE i \in 1..Len(rateNodes) :
        /\ DayCovers(rateNodes[i], t)
        /\ \A j \in 1..Len(rateNodes) :
               DayCovers(rateNodes[j], t) =>
                   \/ localDate(rateNodes[i].startDate) < localDate(rateNodes[j].startDate)
                   \/ /\ localDate(rateNodes[i].startDate) = localDate(rateNodes[j].startDate)
                      /\ i <= j

\* C3: when several intervals cover the queried date, the resolver returns
\* the rate of the covering interval with the earliest startDate, ties broken
\* by the order in the document, whatever that order is.
C3_EarliestStartWins ==
    \A c \in ResolverCalls :
        Cardinality(Covering(c.user, c.at)) >= 2 =>
            c.result = NormalizeRate(
                doc[c.user].interestRates[Winner(doc[c.user].interestRates, c.at)].rate)

-----------------------------------------------------------------------------
(* The accrual engine on its own: documents with one user, every history   *)
(* of at most MaxTx transactions and a schedule out of a few shapes; once  *)
(* the document is loaded the engine is run for the user as of now.        *)

MaxTx ==
    2

TxDates ==
    {<<2025, 1, 1>>, <<2025, 2, 15>>, <<2025, 4, 1>>}

\* The type and amount of the transactions tried.
TxKinds ==
    {<<"Deposit", Rat(2, 1)>>, <<"Withdrawal", Rat(1, 1)>>, <<"Interest", Rat(3, 1)>>}

Transactions ==
    {[date |-> d, type |-> k[1], amount |-> k[2]] : d \in TxDates, k \in TxKinds}

\* One rate for all the dates of the model.
FlatSchedule(rate) ==
    <<[startDate |-> <<2024, 1, 1>>, endDate |-> <<2025, 12, 31>>, rate |-> rate]>>

\* No schedule, a flat one, and one whose rate changes with March 2025.
EngineSchedules ==
    {<<>>,
     FlatSchedule(RMul(Rat(100, 1), APY(2, 1))),
     FlatSchedule(RMul(Rat(100, 1), APY(3, 2))),
     <<[startDate |-> <<2025, 3, 1>>, endDate |-> <<2025, 12, 31>>,
        rate |-> RMul(Rat(100, 1), APY(2, 1))],
       [startDate |-> <<2024, 1, 1>>, endDate |-> <<2025, 2, 28>>,
        rate |-> RMul(Rat(100, 1), APY(3, 2))]>>}

EngineDocs ==
    {<<[name |-> "a", transactions |-> txs, interestRates |-> rs]>> :
        txs \in SeqsUpTo(Transactions, MaxTx), rs \in EngineSchedules}

AsOfDays ==
    {<<2025, 3, 31>>, <<2025, 4, 1>>}

AsOfInstants ==
    UNION {EndsOf(day) : day \in AsOfDays}

Compute ==
    /\ fetchState = "loaded"
    /\ \E ref \in 1..Len(usersData) :
           Ran("", ref, computeInterestSchedule(Deref(ref), now))
    /\ UNCHANGED <<doc, tz, now, elapsed, monthsField, fetchState, currentUser,
                   userSelect, section, balanceView, historyView, projectionView,
                   lastAlert>>

InitEngine ==
    \E d \in EngineDocs, t \in TimeZones, n \in AsOfInstants : Init0(d, t, n, <<>>)

NextEngine ==
    LoadSuccess \/ Compute

SpecEngine ==
    InitEngine /\ [][NextEngine]_vars

\* The calls of the engine made so far.
EngineCalls ==
    {c \in calls : c.fn = "computeInterestSchedule"}

\* The signed amount the data model gives a transaction: +amount for a
\* Deposit or an Interest, -amount for a Withdrawal.
ClaimedSigned(t) ==
    IF t.type \in {"Deposit", "Interest"} THEN t.amount ELSE RNeg(t.amount)

RECURSIVE ClaimedSum(_, _)
ClaimedSum(txs, i) ==
    IF i > Len(txs) THEN Zero
    ELSE RAdd(ClaimedSigned(txs[i]), ClaimedSum(txs, i + 1))

\* C4: the engine's signed amount of every transaction of the account is
\* +amount for Deposit and Interest and -amount for Withdrawal, and
\* baseBalance is the sum of these signed amounts.
C4_SignedSum ==
    \A c \in EngineCalls :
        LET txs == usersData[c.user].transactions
        IN  /\ \A i \in 1..Len(txs) :
                   NormalizeTx(txs)[i].amount = ClaimedSigned(txs[i])
            /\ c.result.baseBalance = ClaimedSum(txs, 1)

\* C5: for a non-empty history in which no transaction has a positive signed
\* amount, whatever the schedule and asOf, the engine returns no credited
\* and no accrued interest, no posted interest transaction, and a current
\* balance equal to baseBalance, the sum of the signed amounts.
C5_NeverFunded ==
    \A c \in EngineCalls :
        LET txs == usersData[c.user].transactions
            norm == NormalizeTx(txs)
        IN  (Len(txs) > 0 /\ \A i \in 1..Len(txs) : ~RLt(Zero, norm[i].amount)) =>
                /\ c.result.totalInterestCredited = Zero
                /\ c.result.accruedCurrentMonth = Zero
                /\ c.result.interestTx = <<>>
                /\ c.result.baseBalance = SumAmounts(norm, 1)
                /\ c.result.currentBalanceWithInterest = c.result.baseBalance

\* C5's case: an account holding only withdrawals, under a positive rate for
\* months before asOf, ends with its negative sum and no interest.
C5_Witness ==
    \E c \in EngineCalls :
        LET user == usersData[c.user]
        IN  /\ Len(user.transactions) = MaxTx
            /\ \A i \in 1..Len(user.transactions) :
                   /\ user.transactions[i].type = "Withdrawal"
                   /\ user.transactions[i].date = <<2025, 1, 1>>
            /\ apyForDateUser(user, localDate(<<2025, 2, 1>>)) # Zero
            /\ RLt(c.result.currentBalanceWithInterest, Zero)
            /\ c.result.currentBalanceWithInterest = c.result.baseBalance
            /\ c.result.interestTx = <<>>

\* The (absolute) month of a date string.
MonthOfDate(date) ==
    date[1] * 12 + date[2] - 1

\* The last day of an absolute month, as iso() writes it.
LastDayOf(mi) ==
    <<mi \div 12, (mi % 12) + 1, MonthLen(mi \div 12, mi % 12)>>

\* The case of C6: the account's only transaction is a deposit dated the
\* first of a month, the schedule is one positive rate for all dates, and
\* asOf is the first day of a later month.
C6_Case(c) ==
    LET txs == usersData[c.user].transactions
    IN  /\ Len(txs) = 1
        /\ txs[1].type = "Deposit"
        /\ txs[1].date[3] = 1
        /\ doc[c.user].interestRates \in {FlatSchedule(r) : r \in RawRates \ {Zero}}
        /\ getDate(c.at) = 1
        /\ MonthOf(c.at) > MonthOfDate(txs[1].date)

\* interestTx holds one positive posting for each month first..last, dated
\* that month's last day, each larger than the one before.
GrowingPostings(interestTx, first, last) ==
    /\ Len(interestTx) = last - first + 1
    /\ \A k \in 1..Len(interestTx) :
           /\ interestTx[k].date = LastDayOf(first + k - 1)
           /\ interestTx[k].type = "Interest"
           /\ RLt(Zero, interestTx[k].amount)
           /\ k > 1 => RLt(interestTx[k - 1].amount, interestTx[k].amount)

\* C6 as claimed: in that case every completed month from the deposit's
\* month M through the month before asOf's posts a positive Interest
\* transaction, each larger than the previous one.
C6_PostsFromDepositMonth ==
    \A c \in EngineCalls :
        C6_Case(c) =>
            GrowingPostings(c.result.interestTx,
                MonthOfDate(usersData[c.user].transactions[1].date),
                MonthOf(c.at) - 1)

\* C6 as amended: in that case the deposit's own month M posts nothing, as
\* the balance carried into it is 0, and every completed month from M + 1
\* through the month before asOf's posts a positive Interest transaction,
\* each larger than the previous one.
C6_PostsAfterDepositMonth ==
    \A c \in EngineCalls :
        C6_Case(c) =>
            GrowingPostings(c.result.interestTx,
                MonthOfDate(usersData[c.user].transactions[1].date) + 1,
                MonthOf(c.at) - 1)

\* C6's case: in a session on UTC time a deposit on 2025-01-01 seen on
\* 2025-04-01 has two postings, for February and March.
C6_Witness ==
    \E c \in EngineCalls :
        /\ C6_Case(c)
        /\ tz = 0
        /\ usersData[c.user].transactions[1].date = <<2025, 1, 1>>
        /\ iso(c.at) = <<2025, 4, 1>>
        /\ Len(c.result.interestTx) = 2
        /\ c.result.interestTx[1].date = <<2025, 2, 28>>
        /\ c.result.interestTx[2].date = <<2025, 3, 31>>

-----------------------------------------------------------------------------
(* The page: a document of at most MaxUsers users is fetched while the     *)
(* buttons are clicked in any order and the clock advances.                *)

MaxUsers ==
    2

\* alice is funded and earns interest; bob only ever withdrew, under a
\* schedule that ends on 2025-03-31.
UserNodes ==
    {[name |-> "alice",
      transactions |->
          <<[date |-> <<2025, 2, 15>>, type |-> "Withdrawal", amount |-> Rat(1, 1)],
            [date |-> <<2025, 1, 1>>, type |-> "Deposit", amount |-> Rat(2, 1)]>>,
      interestRates |-> FlatSchedule(RMul(Rat(100, 1), APY(2, 1)))],
     [name |-> "bob",
      transactions |->
          <<[date |-> <<2025, 2, 15>>, type |-> "Withdrawal", amount |-> Rat(1, 1)]>>,
      interestRates |->
          <<[startDate |-> <<2024, 1, 1>>, endDate |-> <<2025, 3, 31>>,
             rate |-> RMul(Rat(100, 1), APY(3, 2))]>>]}

ProgramDocs ==
    SeqsUpTo(UserNodes, MaxUsers)

\* The page is opened late on 2025-03-31.
OpenInstants ==
    {localDate(<<2025, 3, 31>>) + TicksPerDay - 1}

ProgramInputs ==
    {<<"1">>}

Init ==
    \E d \in ProgramDocs, t \in TimeZones, n \in OpenInstants,
       m \in ProgramInputs :
        Init0(d, t, n, m)

Next ==
    \/ LoadSuccess
    \/ LoadFail
    \/ handleLogin
    \/ ClickBalance
    \/ ClickHistory
    \/ ClickProjection
    \/ ClickUpdate
    \/ Tick

Spec ==
    Init /\ [][Next]_vars

-----------------------------------------------------------------------------
(* The projection on its own: a document with one user is loaded, the user *)
(* logs in and opens or updates the projection with some text in the       *)
(* months field.                                                           *)

ProjectionHistories ==
    {<<>>,
     <<[date |-> <<2025, 1, 1>>, type |-> "Deposit", amount |-> Rat(2, 1)]>>,
     <<[date |-> <<2025, 2, 15>>, type |-> "Withdrawal", amount |-> Rat(1, 1)]>>,
     <<[date |-> <<2025, 2, 15>>, type |-> "Withdrawal", amount |-> Rat(1, 1)],
       [date |-> <<2025, 1, 1>>, type |-> "Deposit", amount |-> Rat(2, 1)]>>,
     <<[date |-> <<2025, 4, 1>>, type |-> "Deposit", amount |-> Rat(3, 1)]>>}

ProjectionDocs ==
    {<<[name |-> "a", transactions |-> txs, interestRates |-> rs]>> :
        txs \in ProjectionHistories, rs \in EngineSchedules}

InitProjection ==
    \E d \in ProjectionDocs, t \in TimeZones, n \in AsOfInstants,
       m \in MonthInputs :
        Init0(d, t, n, m)

NextProjection ==
    \/ LoadSuccess
    \/ handleLogin
    \/ ClickProjection
    \/ ClickUpdate

SpecProjection ==
    InitProjection /\ [][NextProjection]_vars

\* The projection on display is one drawn for a logged-in user.
Drawn ==
    projectionView # NoView /\ projectionView.user # 0

\* The current balance and the rate for today the projection starts from.
BalanceToday ==
    computeInterestSchedule(Deref(projectionView.user), projectionView.asOf)
        .currentBalanceWithInterest

RateToday ==
    apyForDateUser(Deref(projectionView.user), projectionView.asOf)

\* points is the series for months 0..n from balance b at monthly rate m.
IsSeries(points, n, b, m) ==
    /\ Len(points) = n + 1
    /\ \A i \in 1..Len(points) : points[i].month = i - 1
    /\ Len(points) > 0 => points[1].balance = b
    /\ \A i \in 1..(Len(points) - 1) :
           points[i + 1].balance = RMul(points[i].balance, RAdd(One, m))

\* C8: for a month count N >= 1 the projection is the series of N + 1
\* points, months 0..N in order, starting at the current balance and growing
\* each month by the monthly rate of the one rate resolved for today; at
\* rate 0 all the balances equal the current balance.
C8_Series ==
    \A n \in {1, 3} :
        (Drawn /\ projectionView.input = (IF n = 1 THEN <<"1">> ELSE <<"3">>)) =>
            /\ IsSeries(projectionView.dataPoints, n, BalanceToday,
                   monthlyRateFromAPY(RateToday))
            /\ RateToday = Zero =>
                   \A i \in 1..Len(projectionView.dataPoints) :
                       projectionView.dataPoints[i].balance = BalanceToday

\* C8's case: three months projected from a positive balance at a positive
\* rate, the last point above the one before it.
C8_Witness ==
    /\ Drawn
    /\ projectionView.input = <<"3">>
    /\ Len(projectionView.dataPoints) = 4
    /\ RLt(Zero, BalanceToday)
    /\ RLt(Zero, RateToday)
    /\ RLt(projectionView.dataPoints[3].balance, projectionView.dataPoints[4].balance)

\* C9: a month count that is not a number, zero or negative is projected
\* as 12 months: 13 points, months 0..12.
C9_DefaultsTo12 ==
    (Drawn /\ projectionView.input \in {<<>>, <<"x">>, <<"0">>, <<"-", "3">>}) =>
        IsSeries(projectionView.dataPoints, 12, BalanceToday,
            monthlyRateFromAPY(RateToday))

\* C10 as claimed: a projection requested with month count 0 is exactly the
\* one point (0, B).
C10_ZeroMonthsOnePoint ==
    (Drawn /\ projectionView.input = <<"0">>) =>
        projectionView.dataPoints = <<[month |-> 0, balance |-> BalanceToday]>>

\* C10 as amended: a projection requested with month count 0 is drawn as
\* the 12-month projection: 13 points, months 0..12, of which the first is
\* (0, B).
C10_ZeroMonthsIsDefault ==
    (Drawn /\ projectionView.input = <<"0">>) =>
        /\ IsSeries(projectionView.dataPoints, DefaultMonths, BalanceToday,
               monthlyRateFromAPY(RateToday))
        /\ projectionView.dataPoints[1] = [month |-> 0, balance |-> BalanceToday]

\* C10's case: month count 0 with a non-zero balance and a positive rate.
C10_Witness ==
    /\ Drawn
    /\ projectionView.input = <<"0">>
    /\ BalanceToday # Zero
    /\ RLt(Zero, RateToday)
    /\ Len(projectionView.dataPoints) = 13

-----------------------------------------------------------------------------
(* The monthly replay of the engine: documents with one user whose         *)
(* transactions fall on the first day of a completed month, inside the     *)
(* month of asOf or before it, and on the first day of the month after;    *)
(* once the document is loaded the engine is run for the user as of now.   *)

ReplayDates ==
    {<<2025, 1, 1>>, <<2025, 3, 15>>, <<2025, 4, 1>>}

ReplayKinds ==
    {<<"Deposit", Rat(2, 1)>>, <<"Withdrawal", Rat(1, 1)>>}

ReplayTransactions ==
    {[date |-> d, type |-> k[1], amount |-> k[2]] :
        d \in ReplayDates, k \in ReplayKinds}

ReplayDocs ==
    {<<[name |-> "a", transactions |-> txs, interestRates |-> rs]>> :
        txs \in SeqsUpTo(ReplayTransactions, MaxTx), rs \in EngineSchedules}

InitReplay ==
    \E d \in ReplayDocs, t \in TimeZones, n \in AsOfInstants : Init0(d, t, n, <<>>)

NextReplay ==
    LoadSuccess \/ Compute

SpecReplay ==
    InitReplay /\ [][NextReplay]_vars

\* The calls of the engine on an account that has a positive transaction.
FundedCalls ==
    {c \in EngineCalls :
        /\ c.user # 0
        /\ \E i \in 1..Len(usersData[c.user].transactions) :
               RLt(Zero, SignedAmount(usersData[c.user].transactions[i]))}

\* The signed transactions of the account of the call c.
SignedOf(c) ==
    NormalizeTx(usersData[c.user].transactions)

\* The first day, local midnight, of the absolute month mi.
FirstOfMonth(mi) ==
    NewDate(mi \div 12, mi % 12, 1)

RECURSIVE DatedFrom(_, _, _, _)
DatedFrom(txs, i, lo, hi) ==
    IF i > Len(txs) THEN Zero
    ELSE LET rest == DatedFrom(txs, i + 1, lo, hi)
             day == localDate(txs[i].date)
         IN  IF lo <= day /\ day < hi THEN RAdd(txs[i].amount, rest) ELSE rest

\* The sum of the amounts of txs dated, as local calendar dates, from the
\* instant lo on and before the instant hi.
DatedSum(txs, lo, hi) ==
    DatedFrom(txs, 1, lo, hi)

\* The sum of the amounts of txs dated before the instant hi.
DatedBefore(txs, hi) ==
    DatedFrom(txs, 1, 0, hi)

\* The month of the earliest positive transaction of signed, by its date
\* read as a local calendar date.
FirstDepositMonth(signed) ==
    LET funding == {i \in 1..Len(signed) : RLt(Zero, signed[i].amount)}
    IN  MonthOfDate(signed[CHOOSE i \in funding :
            \A j \in funding :
                localDate(signed[i].date) <= localDate(signed[j].date)].date)

\* The months the replay of the call c completes: from the first deposit's
\* month to the month before asOf's.
ReplayMonths(c) ==
    FirstDepositMonth(SignedOf(c)) .. (MonthOf(c.at) - 1)

\* The interest posted for the month mi: the amount of the entry dated in
\* mi, 0 when there is none.
PostedFor(interestTx, mi) ==
    DatedSum(interestTx, FirstOfMonth(mi), FirstOfMonth(mi + 1))

\* The balance carried into the month mi: every transaction and every
\* posting dated before its first day, none dated within it.
CarriedInto(c, mi) ==
    RAdd(DatedBefore(SignedOf(c), FirstOfMonth(mi)),
         DatedBefore(c.result.interestTx, FirstOfMonth(mi)))

\* The interest due for the month mi on the balance carried into it, at
\* the rate resolved on its first day.
InterestDue(c, mi) ==
    RMul(CarriedInto(c, mi),
         monthlyRateFromAPY(apyForDateUser(usersData[c.user], FirstOfMonth(mi))))

\* C11: in the replay of completed months the interest of each month m is
\* the balance carried into m, which holds no transaction dated within m,
\* times the monthly rate resolved on m's first day, and the balance
\* carried on is that balance plus the interest plus the month's own
\* transactions; a transaction dated in m never changes m's interest.
C11_InterestOnCarriedBalance ==
    \A c \in FundedCalls :
        /\ \A mi \in ReplayMonths(c) :
               PostedFor(c.result.interestTx, mi) = InterestDue(c, mi)
        /\ \A k \in 1..Len(c.result.interestTx) :
               c.result.interestTx[k].amount =
                   InterestDue(c, MonthOfDate(c.result.interestTx[k].date))

\* C11's case: a deposit of 2 in January and one more in mid-March, seen on
\* April 1: March's interest is earned on 2 plus February's interest, not
\* on the March deposit.
C11_Witness ==
    \E c \in FundedCalls :
        /\ usersData[c.user].transactions =
               <<[date |-> <<2025, 3, 15>>, type |-> "Deposit", amount |-> Rat(2, 1)],
                 [date |-> <<2025, 1, 1>>, type |-> "Deposit", amount |-> Rat(2, 1)]>>
        /\ iso(c.at) = <<2025, 4, 1>>
        /\ Len(c.result.interestTx) = 2
        /\ c.result.interestTx[2].date = <<2025, 3, 31>>
        /\ CarriedInto(c, MonthOfDate(<<2025, 3, 31>>)) =
               RAdd(Rat(2, 1), c.result.interestTx[1].amount)
        /\ RLt(Zero, c.result.interestTx[2].amount)

\* C12: the posted interest transactions are exactly one entry for each
\* month from clockStart's month, the month of the first deposit, to the
\* month before asOf's whose interest is not zero, and no other entry; each
\* is dated the last day of its month, so all are dated before
\* currentMonthStart and in strictly ascending order.
C12_OnePostingPerMonth ==
    \A c \in EngineCalls :
        LET interestTx == c.result.interestTx
        IN  IF c \notin FundedCalls THEN interestTx = <<>>
            ELSE
            /\ \A k \in 1..Len(interestTx) :
                   /\ MonthOfDate(interestTx[k].date) \in ReplayMonths(c)
                   /\ interestTx[k].date = LastDayOf(MonthOfDate(interestTx[k].date))
                   /\ interestTx[k].type = "Interest"
                   /\ interestTx[k].amount # Zero
                   /\ localDate(interestTx[k].date) < startOfMonth(c.at)
                   /\ k > 1 => localDate(interestTx[k - 1].date) <
                                   localDate(interestTx[k].date)
            /\ \A mi \in ReplayMonths(c) :
                   InterestDue(c, mi) # Zero =>
                       \E k \in 1..Len(interestTx) :
                           MonthOfDate(interestTx[k].date) = mi

\* The transaction the engine takes as the first deposit in the call c.
FirstDepositOf(c) ==
    LET txSorted == TxSorted(usersData[c.user].transactions)
    IN  txSorted[FirstDepositIndex(txSorted)]

\* C13: whatever the timezone of the session, clockStart is the first day
\* of the month YYYY-MM of the first deposit's date string YYYY-MM-DD, the
\* month the monthly sums count that transaction in.
C13_ClockStartsInDepositMonth ==
    \A c \in FundedCalls :
        /\ ClockStart(FirstDepositOf(c)) =
               FirstOfMonth(MonthOfDate(FirstDepositOf(c).date))
        /\ MonthOf(ClockStart(FirstDepositOf(c))) =
               MonthOf(localDate(FirstDepositOf(c).date))

\* C14: for an account with a positive transaction, whatever the schedule
\* and asOf, startBalThisMonth is the balance at the start of the current
\* month: the signed sum of the transactions dated before currentMonthStart
\* plus totalInterestCredited, with no transaction dated on or after
\* currentMonthStart in it.
C14_StartOfMonthBalance ==
    \A c \in FundedCalls :
        c.result.startBalThisMonth =
            RAdd(DatedBefore(SignedOf(c), startOfMonth(c.at)),
                 c.result.totalInterestCredited)

\* The day of the month of an instant, counted from 1.
DayOfMonth(t) ==
    SerialOf(t) - SerialOf(FirstOfMonth(MonthOf(t))) + 1

\* The number of days of the month of an instant.
DaysOfMonth(t) ==
    SerialOf(FirstOfMonth(MonthOf(t) + 1)) - SerialOf(FirstOfMonth(MonthOf(t)))

\* The interest of the whole current month of the call c: the balance at the
\* start of the month times the monthly rate resolved on its first day.
FullMonthInterest(c) ==
    RMul(c.result.startBalThisMonth,
         monthlyRateFromAPY(apyForDateUser(Deref(c.user), FirstOfMonth(MonthOf(c.at)))))

\* C15: for every asOf, accruedCurrentMonth is the full month's interest
\* times min(daysInMonth, asOf.day) / daysInMonth; on the last day of a
\* month it is the full month's interest and on day 1 it is 1 / daysInMonth
\* of it.
C15_ProratedByDays ==
    \A c \in EngineCalls :
        LET day == DayOfMonth(c.at)
            dim == DaysOfMonth(c.at)
            elapsedDays == IF dim < day THEN dim ELSE day
        IN  /\ c.result.accruedCurrentMonth =
                   RMul(FullMonthInterest(c), Rat(elapsedDays, dim))
            /\ day = dim => c.result.accruedCurrentMonth = FullMonthInterest(c)
            /\ day = 1 => c.result.accruedCurrentMonth =
                              RMul(FullMonthInterest(c), Rat(1, dim))

\* C15's case: on April 1 a positive balance at a positive rate has accrued
\* one thirtieth of April's interest, which is not zero.
C15_Witness ==
    \E c \in FundedCalls :
        /\ iso(c.at) = <<2025, 4, 1>>
        /\ RLt(Zero, FullMonthInterest(c))
        /\ c.result.accruedCurrentMonth = RMul(FullMonthInterest(c), Rat(1, 30))
        /\ RLt(Zero, c.result.accruedCurrentMonth)

\* C16: for an account with a positive transaction whose transactions are
\* all dated on or before asOf, currentBalanceWithInterest = baseBalance +
\* totalInterestCredited + accruedCurrentMonth: every transaction is counted
\* once and interest is the only other contribution.
C16_Conservation ==
    \A c \in FundedCalls :
        (\A i \in 1..Len(SignedOf(c)) :
            SerialOf(localDate(SignedOf(c)[i].date)) <= SerialOf(c.at)) =>
            /\ c.result.baseBalance = DatedBefore(SignedOf(c), c.at + 1)
            /\ c.result.currentBalanceWithInterest =
                   RAdd(RAdd(c.result.baseBalance, c.result.totalInterestCredited),
                        c.result.accruedCurrentMonth)

\* C16's case: a deposit in a completed month and a transaction dated asOf
\* itself, with interest credited for the months between and accrued for
\* the current one.
C16_Witness ==
    \E c \in FundedCalls :
        /\ Len(SignedOf(c)) = MaxTx
        /\ \E i, j \in 1..Len(SignedOf(c)) :
               /\ SignedOf(c)[i].date = <<2025, 1, 1>>
               /\ RLt(Zero, SignedOf(c)[i].amount)
               /\ SignedOf(c)[j].date = iso(c.at)
        /\ iso(c.at) = <<2025, 4, 1>>
        /\ RLt(Zero, c.result.totalInterestCredited)
        /\ RLt(Zero, c.result.accruedCurrentMonth)
        /\ c.result.currentBalanceWithInterest =
               RAdd(RAdd(c.result.baseBalance, c.result.totalInterestCredited),
                    c.result.accruedCurrentMonth)

\* C17: however the load of the document and the clicks interleave,
\* computeInterestSchedule is called only once the load has completed and
\* filled the user list; a click that comes before does not run the engine.
C17_EngineOnlyAfterLoad ==
    \A c \in EngineCalls :
        fetchState = "loaded" /\ Len(usersData) > 0

=============================================================================
